---- MODULE Spec2Model ----
(***************************************************************************)
(* A model of the rich-text and embedded-file renderers of one2html        *)
(* (src/src/page/rich_text.rs, src/src/page/embedded_file.rs).             *)
(*                                                                         *)
(* A string is a sequence of characters.  A character is a one-character   *)
(* TLA+ string, or a name for a code point that has no TLA+ escape:        *)
(* "VT" is U+000B, "FF" is U+000C, "U+3000" is the ideographic space and   *)
(* "U+FDDF" the private-use code point that starts a hyperlink marker.     *)
(* An Option is a sequence of length 0 (None) or 1 (Some).                 *)
(***************************************************************************)
EXTENDS Integers, Sequences, FiniteSets, TLC

VARIABLES
    files,         \* scope -> the set of file names used in it (section.files)
    returned,      \* scope -> the file names determine_filename returned, in order
    call,          \* the last determine_filename call and its outcome
    pc,            \* position of the text pipeline: "idle", "runs" or "done"
    para,          \* the input of the text pipeline (a paragraph, a text, a style)
    parts,         \* parse_content: the parts of the text, in run order
    k,             \* parse_content: number of (part, style) pairs consumed
    in_hyperlink,  \* parse_content: the flag captured by the closure
    frags,         \* parse_content: the fragments emitted so far, in run order
    result         \* the outcome of the operation

vars == <<files, returned, call, pc, para, parts, k, in_hyperlink, frags, result>>

fileVars == <<files, returned, call>>
textVars == <<pc, para, parts, k, in_hyperlink, frags, result>>

----------------------------------------------------------------------------
(* Options, results and string helpers                                     *)

None == << >>
Some(x) == <<x>>
IsSome(o) == Len(o) = 1
Unwrap(o) == o[1]

\* A Result<String>: Ok(value), Err(msg), or a panic (assert!, unimplemented!).
NoResult == [kind |-> "none", value |-> << >>, msg |-> ""]
Ok(v) == [kind |-> "ok", value |-> v, msg |-> ""]
Err(m) == [kind |-> "err", value |-> << >>, msg |-> m]
Panic(m) == [kind |-> "panic", value |-> << >>, msg |-> m]
IsOk(r) == r.kind = "ok"

starts_with(s, p) ==
    /\ Len(p) <= Len(s)
    /\ SubSeq(s, 1, Len(p)) = p

ends_with(s, p) ==
    /\ Len(p) <= Len(s)
    /\ SubSeq(s, Len(s) - Len(p) + 1, Len(s)) = p

\* str::strip_prefix / str::strip_suffix: None when the affix is absent.
strip_prefix(s, p) ==
    IF starts_with(s, p) THEN Some(SubSeq(s, Len(p) + 1, Len(s))) ELSE None

strip_suffix(s, p) ==
    IF ends_with(s, p) THEN Some(SubSeq(s, 1, Len(s) - Len(p))) ELSE None

\* str::trim_matches(c): drops every leading and every trailing c.
RECURSIVE trim_start_matches(_, _)
trim_start_matches(s, c) ==
    IF s # << >> /\ Head(s) = c THEN trim_start_matches(Tail(s), c) ELSE s

RECURSIVE trim_end_matches(_, _)
trim_end_matches(s, c) ==
    IF s # << >> /\ s[Len(s)] = c
    THEN trim_end_matches(SubSeq(s, 1, Len(s) - 1), c)
    ELSE s

trim_matches(s, c) == trim_end_matches(trim_start_matches(s, c), c)

\* The concatenation of a sequence of strings.
RECURSIVE Flatten(_)
Flatten(ss) ==
    IF ss = << >> THEN << >>
    ELSE IF Len(ss) = 1 THEN ss[1]
    ELSE LET h == Len(ss) \div 2
         IN  Flatten(SubSeq(ss, 1, h)) \o Flatten(SubSeq(ss, h + 1, Len(ss)))

RECURSIVE Repeat(_, _)
Repeat(s, n) == IF n <= 0 THEN << >> ELSE s \o Repeat(s, n - 1)

\* Display of a non-negative integer: its decimal digits.
Digits == <<"0", "1", "2", "3", "4", "5", "6", "7", "8", "9">>

RECURSIVE Decimal(_)
Decimal(n) ==
    IF n < 10 THEN <<Digits[n + 1]>>
    ELSE Decimal(n \div 10) \o <<Digits[(n % 10) + 1]>>

----------------------------------------------------------------------------
(* std::path on Unix, as far as determine_filename uses it                 *)

RECURSIVE SplitSlash(_)
SplitSlash(s) ==
    IF \A p \in 1..Len(s) : s[p] # "/" THEN <<s>>
    ELSE LET p == CHOOSE q \in 1..Len(s) :
                      s[q] = "/" /\ \A r \in 1..(q - 1) : s[r] # "/"
         IN <<SubSeq(s, 1, p - 1)>> \o SplitSlash(SubSeq(s, p + 1, Len(s)))

\* Path::file_name: the last component when it is a normal one.  Empty
\* components and "." components are dropped by Path::components (a leading
\* "." is CurDir, never a normal component); ".." is ParentDir.
file_name(path) ==
    LET segs == SelectSeq(SplitSlash(path), LAMBDA c : c # << >> /\ c # <<".">>)
    IN  IF segs = << >> THEN None
        ELSE IF segs[Len(segs)] = <<".", ".">> THEN None
        ELSE Some(segs[Len(segs)])

\* Path::extension: the part of file_name after its last dot; None when there
\* is no file name, no dot, or nothing before the last dot (".png").
extension(path) ==
    LET f == file_name(path) IN
    IF ~IsSome(f) THEN None
    ELSE LET n == Unwrap(f)
             dots == {p \in 1..Len(n) : n[p] = "."}
         IN  IF dots = {} THEN None
             ELSE LET d == CHOOSE p \in dots : \A q \in dots : q <= p
                  IN  IF d = 1 THEN None
                      ELSE Some(SubSeq(n, d + 1, Len(n)))

----------------------------------------------------------------------------
(* determine_filename                                                       *)

\* format!("{}-{}.{}", base, i, ext)
FormatCandidate(base, i, ext) == base \o <<"-">> \o Decimal(i) \o <<".">> \o ext

\* One evaluation of the body of the loop from the `PathBuf::from` on: the
\* next candidate, or the error of the first `?` that fails.  A &str is
\* UTF-8, so neither to_str fails.
NextCandidate(filename, i) ==
    LET ext == extension(filename) IN
    IF ~IsSome(ext) THEN Err("Embedded file has no extension")
    ELSE LET stripped == strip_suffix(filename, Unwrap(ext)) IN
         IF ~IsSome(stripped) THEN Err("Failed to strip extension from file name")
         ELSE Ok(FormatCandidate(trim_matches(Unwrap(stripped), "."), i, Unwrap(ext)))

\* A loop that registers a fallback name before it reports a failure.
RECURSIVE MutRegisterOnError(_, _, _, _)
MutRegisterOnError(reg, filename, current, i) ==
    IF current \notin reg
    THEN [res |-> Ok(current), files |-> reg \cup {current}]
    ELSE LET next == NextCandidate(filename, i) IN
         IF ~IsOk(next) THEN [res |-> next, files |-> reg \cup {filename \o <<"-">>}]
         ELSE MutRegisterOnError(reg, filename, next.value, i + 1)

\* A loop that returns the first candidate without looking it up.
MutBlindLoop(reg, filename, current, i) ==
    IF current \notin reg
    THEN [res |-> Ok(current), files |-> reg \cup {current}]
    ELSE LET next == NextCandidate(filename, i) IN
         IF ~IsOk(next) THEN [res |-> next, files |-> reg]
         ELSE [res |-> next, files |-> reg \cup {next.value}]

\* A loop that starts numbering at 1.
RECURSIVE MutSkipLoop(_, _, _, _)
MutSkipLoop(reg, filename, current, i) ==
    IF current \notin reg
    THEN [res |-> Ok(current), files |-> reg \cup {current}]
    ELSE LET next == NextCandidate(filename, i + 1) IN
         IF ~IsOk(next) THEN [res |-> next, files |-> reg]
         ELSE MutSkipLoop(reg, filename, next.value, i + 1)

\* The loop of determine_filename, entered with the registry reg, the current
\* candidate and the counter i; yields the result and the registry after it.
RECURSIVE DetermineLoop(_, _, _, _)
DetermineLoop(reg, filename, current, i) ==
    IF current \notin reg
    THEN [res |-> Ok(current), files |-> reg \cup {current}]
    ELSE LET next == NextCandidate(filename, i) IN
         IF ~IsOk(next) THEN [res |-> next, files |-> reg]
         ELSE DetermineLoop(reg, filename, next.value, i + 1)

determine_filename(reg, filename) == DetermineLoop(reg, filename, filename, 0)

----------------------------------------------------------------------------
(* The file registry: one set of used names per output scope (a section)   *)

MaxCalls == 3

Scopes == {1, 2}

ImgPng == <<"i", "m", "g", ".", "p", "n", "g">>
Img0Png == <<"i", "m", "g", "-", "0", ".", "p", "n", "g">>
Img1Png == <<"i", "m", "g", "-", "1", ".", "p", "n", "g">>
ImgNoExt == <<"i", "m", "g">>
DotPng == <<".", "p", "n", "g">>
ImgDot == <<"i", "m", "g", ".">>
ImgPngSlash == <<"i", "m", "g", ".", "p", "n", "g", "/">>
DirImg == <<"d", ".", "e", "/", "i", "m", "g">>
DotAPng == <<".", "a", ".", "p", "n", "g">>

\* The declared names the calls are drawn from.
DeclaredNames ==
    {ImgPng, Img0Png, ImgNoExt, DotPng, ImgDot, ImgPngSlash, DirImg, DotAPng}

IdleText ==
    /\ pc = "idle"
    /\ para = << >>
    /\ parts = << >>
    /\ k = 0
    /\ in_hyperlink = FALSE
    /\ frags = << >>
    /\ result = NoResult

InitFiles ==
    /\ files = [s \in Scopes |-> {}]
    /\ returned = [s \in Scopes |-> << >>]
    /\ call = [n |-> 0, scope |-> 1, filename |-> << >>,
               before |-> [s \in Scopes |-> {}], res |-> NoResult]
    /\ IdleText

\* A renderer of scope s resolves the declared name filename.
DetermineFilename(s, filename) ==
    LET out == determine_filename(files[s], filename) IN
    /\ call.n < MaxCalls
    /\ files' = [files EXCEPT ![s] = out.files]
    /\ returned' = IF IsOk(out.res)
                   THEN [returned EXCEPT ![s] = Append(@, out.res.value)]
                   ELSE returned
    /\ call' = [n |-> call.n + 1, scope |-> s, filename |-> filename,
                before |-> files, res |-> out.res]
    /\ UNCHANGED textVars

NextFiles == \E s \in Scopes, filename \in DeclaredNames : DetermineFilename(s, filename)

SpecFiles == InitFiles /\ [][NextFiles]_vars

----------------------------------------------------------------------------
(* Claims about determine_filename                                          *)

NoRepeats(seq) == \A i, j \in 1..Len(seq) : i # j => seq[i] # seq[j]

\* Whether v is the candidate of filename with the smallest counter i >= 0
\* that is not in reg.
IsFirstFreeCandidate(v, reg, filename) ==
    \E i \in 0..Cardinality(reg) :
        /\ IsOk(NextCandidate(filename, i))
        /\ v = NextCandidate(filename, i).value
        /\ v \notin reg
        /\ \A j \in 0..(i - 1) : NextCandidate(filename, j).value \in reg

\* C1: within one scope no two successful determine_filename calls return the
\* same file name, every returned name is in the scope's registry, and a
\* step never removes a name from a registry.
C1_UniqueNames ==
    /\ [](\A s \in Scopes :
            /\ NoRepeats(returned[s])
            /\ \A i \in 1..Len(returned[s]) : returned[s][i] \in files[s])
    /\ [][\A s \in Scopes : files[s] \subseteq files'[s]]_vars

\* C1 witness: a scope handed out "img.png", then the declared "img-0.png",
\* then had to skip the taken candidate and hand out "img-1.png".
C1_Witness ==
    \E s \in Scopes :
        /\ returned[s] = <<ImgPng, Img0Png, Img1Png>>
        /\ call.filename = ImgPng

\* C2 as stated: an unregistered name is returned unchanged; a registered
\* name that has an extension is returned as the first free base-i.ext; the
\* other scopes' registries are untouched.
C2_Original ==
    call.n > 0 =>
        LET reg == call.before[call.scope]
            f == call.filename
        IN  /\ f \notin reg => call.res = Ok(f)
            /\ (f \in reg /\ IsSome(extension(f))) =>
                   /\ IsOk(call.res)
                   /\ IsFirstFreeCandidate(call.res.value, reg, f)
            /\ \A s \in Scopes \ {call.scope} : files[s] = call.before[s]

\* C2 amended: as C2, for a registered name that ends with its extension; a
\* registered name whose extension is not its suffix ("img.png/") is an error.
C2_FirstFree ==
    call.n > 0 =>
        LET reg == call.before[call.scope]
            f == call.filename
            ext == extension(f)
        IN  /\ f \notin reg => call.res = Ok(f)
            /\ (f \in reg /\ IsSome(ext) /\ ends_with(f, Unwrap(ext))) =>
                   /\ IsOk(call.res)
                   /\ IsFirstFreeCandidate(call.res.value, reg, f)
            /\ (f \in reg /\ IsSome(ext) /\ ~ends_with(f, Unwrap(ext))) =>
                   /\ call.res.kind = "err"
                   /\ files = call.before
            /\ \A s \in Scopes \ {call.scope} : files[s] = call.before[s]

\* C2 witness: the third "img.png" of a scope got "img-1.png" while the other
\* scope holds a name of its own.
C2_Witness ==
    /\ call.n = 3
    /\ call.filename = ImgPng
    /\ call.before[call.scope] = {ImgPng, Img0Png}
    /\ call.res = Ok(Img1Png)

\* C6: a call with a registered name that has no extension fails; a failed
\* call returns no name and leaves every registry as it was.
C6_FailureLeavesRegistry ==
    call.n > 0 =>
        /\ (call.filename \in call.before[call.scope]
               /\ ~IsSome(extension(call.filename))) => call.res.kind = "err"
        /\ ~IsOk(call.res) =>
               /\ files = call.before
               /\ call.res.value = << >>

\* C6 witness: a second registration of the extension-less "img" failed.
C6_Witness ==
    /\ call.filename = ImgNoExt
    /\ ImgNoExt \in call.before[call.scope]
    /\ call.res = Err("Embedded file has no extension")
    /\ files[call.scope] # {}

----------------------------------------------------------------------------
(* fix_newlines                                                             *)

BR == <<"<", "b", "r", ">">>
NBSP == <<"&", "n", "b", "s", "p", ";">>

\* The characters the regex class \s matches (Unicode White_Space), among
\* the characters of this model.
IsWhitespace(c) == c \in {" ", "\t", "\n", "\r", "VT", "FF", "U+00A0", "U+3000"}

\* The number of bytes of a character in UTF-8 (str::len counts bytes).
Utf8Len(c) ==
    CASE c = "U+00A0" -> 2
      [] c \in {"U+3000", "U+FDDF"} -> 3
      [] OTHER -> 1

\* str::replace of the one-character pattern c by the string by.
replace(s, c, by) ==
    Flatten([i \in 1..Len(s) |-> IF s[i] = c THEN by ELSE <<s[i]>>])

\* Whether position p of s lies in a match of <br>(\s+), in its group: some
\* <br> ends right before a position q <= p and s[q..p] is whitespace.  The
\* matches of the regex cannot overlap, so replace_all rewrites every one.
InLeadingWhitespace(s, p) ==
    \E q \in 1..p :
        /\ \A r \in q..p : IsWhitespace(s[r])
        /\ q > Len(BR)
        /\ SubSeq(s, q - Len(BR), q - 1) = BR

\* REGEX_LEADING_SPACES.replace_all: every match of <br>(\s+) becomes <br>
\* and "&nbsp;".repeat(captures[1].len()), one &nbsp; per byte of the group.
ReplaceLeadingSpaces(s) ==
    Flatten([p \in 1..Len(s) |->
                IF InLeadingWhitespace(s, p) THEN Repeat(NBSP, Utf8Len(s[p]))
                ELSE <<s[p]>>])

fix_newlines(text) ==
    ReplaceLeadingSpaces(replace(replace(replace(text, "VT", BR), "\n", BR), "\r", BR))

----------------------------------------------------------------------------
(* The whitespace normaliser applied to bounded texts                      *)

MaxPieces == 3

TextPieces ==
    {<<"x">>, <<" ">>, <<"\n">>, <<"\r">>, <<"VT">>, <<"\t">>, <<"U+3000">>, BR}

\* The texts made of at most n pieces.
RECURSIVE PieceTexts(_)
PieceTexts(n) ==
    IF n = 0 THEN {<< >>}
    ELSE LET shorter == PieceTexts(n - 1)
         IN  shorter \cup {t \o p : t \in shorter, p \in TextPieces}

IdleFiles ==
    /\ files = [s \in Scopes |-> {}]
    /\ returned = [s \in Scopes |-> << >>]
    /\ call = [n |-> 0, scope |-> 1, filename |-> << >>,
               before |-> [s \in Scopes |-> {}], res |-> NoResult]

InitFix ==
    /\ IdleFiles
    /\ pc = "idle"
    /\ para \in {[text |-> t] : t \in PieceTexts(MaxPieces)}
    /\ parts = << >>
    /\ k = 0
    /\ in_hyperlink = FALSE
    /\ frags = << >>
    /\ result = NoResult

FixNewlines ==
    /\ pc = "idle"
    /\ pc' = "done"
    /\ result' = Ok(fix_newlines(para.text))
    /\ UNCHANGED <<para, parts, k, in_hyperlink, frags>>
    /\ UNCHANGED fileVars

NextFix == FixNewlines

SpecFix == InitFix /\ [][NextFix]_vars

\* The normaliser as C5 describes it: breaks for VT, LF and CR, then one
\* &nbsp; for each U+0020 of a run of U+0020 directly after a <br>.
InLeadingSpaces(s, p) ==
    \E q \in 1..p :
        /\ \A r \in q..p : s[r] = " "
        /\ q > Len(BR)
        /\ SubSeq(s, q - Len(BR), q - 1) = BR

RefLeadingSpaces(s) ==
    Flatten([p \in 1..Len(s) |-> IF InLeadingSpaces(s, p) THEN NBSP ELSE <<s[p]>>])

RefFixNewlines(text) ==
    RefLeadingSpaces(
        Flatten([i \in 1..Len(text) |->
                    IF text[i] \in {"VT", "\n", "\r"} THEN BR ELSE <<text[i]>>]))

\* C5: fix_newlines equals the reference: only runs of U+0020 directly after
\* a <br> are rewritten, one &nbsp; per space; tabs and other whitespace stay.
C5_EqualsReference ==
    pc = "done" => result = Ok(RefFixNewlines(para.text))

----------------------------------------------------------------------------
(* The splitting loop of parse_content                                      *)

Min(a, b) == IF a <= b THEN a ELSE b

\* text.chars().take(i).collect() and text.chars().skip(i).collect()
take(text, i) == SubSeq(text, 1, Min(i, Len(text)))
skip(text, i) == SubSeq(text, Min(i, Len(text)) + 1, Len(text))

Reverse(seq) == [i \in 1..Len(seq) |-> seq[Len(seq) + 1 - i]]

\* A loop that cuts one character too far.
RECURSIVE MutSplitLoop(_, _, _)
MutSplitLoop(text, indices, acc) ==
    IF indices = << >> THEN [text |-> text, parts |-> acc]
    ELSE LET i == indices[Len(indices)]
         IN  MutSplitLoop(take(text, i),
                          SubSeq(indices, 1, Len(indices) - 1),
                          Append(acc, skip(text, i + 1)))

\* `for i in indices.iter().copied().rev()`: cut the text at the last index
\* not yet used, push what follows it, keep what precedes it.
RECURSIVE SplitLoop(_, _, _)
SplitLoop(text, indices, acc) ==
    IF indices = << >> THEN [text |-> text, parts |-> acc]
    ELSE LET i == indices[Len(indices)]
         IN  SplitLoop(take(text, i),
                       SubSeq(indices, 1, Len(indices) - 1),
                       Append(acc, skip(text, i)))

\* The vector `parts` after the loop and the push of the remaining text.
SplitParts(text, indices) ==
    LET cut == SplitLoop(text, indices, << >>)
    IN  IF indices # << >> THEN Append(cut.parts, cut.text) ELSE cut.parts

\* parts.into_iter().rev()
RunOrder(ps) == Reverse(ps)

MaxTextLen == 4
MaxSplits == 3

HelloWorld == <<"h", "e", "l", "l", "o", " ", "w", "o", "r", "l", "d">>

SplitTexts ==
    {HelloWorld} \cup
    UNION {[1..n -> {"a", "b"}] : n \in 1..MaxTextLen}

\* The non-empty ascending sequences of at most MaxSplits offsets below len.
SplitPoints(len) ==
    {ix \in UNION {[1..n -> 0..(len - 1)] : n \in 1..MaxSplits} :
        \A i \in 1..(Len(ix) - 1) : ix[i] <= ix[i + 1]}

InitSplit ==
    /\ IdleFiles
    /\ pc = "idle"
    /\ para \in UNION {{[text |-> t, indices |-> ix] : ix \in SplitPoints(Len(t))} :
                         t \in SplitTexts}
    /\ parts = << >>
    /\ k = 0
    /\ in_hyperlink = FALSE
    /\ frags = << >>
    /\ result = NoResult

Split ==
    /\ pc = "idle"
    /\ pc' = "done"
    /\ parts' = RunOrder(SplitParts(para.text, para.indices))
    /\ UNCHANGED <<para, k, in_hyperlink, frags, result>>
    /\ UNCHANGED fileVars

NextSplit == Split

SpecSplit == InitSplit /\ [][NextSplit]_vars

\* The offset at which run j starts (j = 1 is the first run).
RunStart(text, indices, j) == IF j = 1 THEN 0 ELSE indices[j - 1]
RunEnd(text, indices, j) == IF j = Len(indices) + 1 THEN Len(text) ELSE indices[j]

\* C8: for a non-empty text and non-empty ascending split points below its
\* length, the parts, reversed, are len(split_points)+1 in number, part j is
\* the text between split point j-1 and split point j, and their
\* concatenation is the text.
C8_PartsReconstructText ==
    pc = "done" =>
        /\ Len(parts) = Len(para.indices) + 1
        /\ \A j \in 1..Len(parts) :
               parts[j] = SubSeq(para.text,
                                 RunStart(para.text, para.indices, j) + 1,
                                 RunEnd(para.text, para.indices, j))
        /\ Flatten(parts) = para.text

\* C8 witness: "hello world" cut at [3, 5] gave "hel", "lo", " world".
C8_Witness ==
    /\ pc = "done"
    /\ para.text = HelloWorld
    /\ para.indices = <<3, 5>>
    /\ parts = <<<<"h", "e", "l">>, <<"l", "o">>, <<" ", "w", "o", "r", "l", "d">>>>

----------------------------------------------------------------------------
(* StyleSet (crate::utils): an ordered map from property to value          *)

StyleSet_new == << >>

\* set: overwrite the value of a key that is present, else append the pair.
StyleSet_set(ss, key, value) ==
    IF \E i \in 1..Len(ss) : ss[i][1] = key
    THEN [i \in 1..Len(ss) |-> IF ss[i][1] = key THEN <<key, value>> ELSE ss[i]]
    ELSE Append(ss, <<key, value>>)

\* extend: set every pair of other, in other's order.
RECURSIVE StyleSet_extend(_, _)
StyleSet_extend(ss, other) ==
    IF other = << >> THEN ss
    ELSE StyleSet_extend(StyleSet_set(ss, Head(other)[1], Head(other)[2]), Tail(other))

StyleSet_len(ss) == Len(ss)

\* Display: "k1:v1;k2:v2;" in insertion order.
StyleSet_display(ss) ==
    Flatten([i \in 1..Len(ss) |-> ss[i][1] \o <<":">> \o ss[i][2] \o <<";">>])

\* px (crate::utils): the pixel amount of a paragraph spacing.  The spacing
\* values of this model are whole numbers of the unit px writes.
px(v) == Decimal(v) \o <<"p", "x">>

----------------------------------------------------------------------------
(* Style records (ParagraphStyling) and parse_style                         *)

K_FontWeight == <<"f", "o", "n", "t", "-", "w", "e", "i", "g", "h", "t">>
V_Bold == <<"b", "o", "l", "d">>
K_FontStyle == <<"f", "o", "n", "t", "-", "s", "t", "y", "l", "e">>
V_Italic == <<"i", "t", "a", "l", "i", "c">>
K_TextDecoration == <<"t", "e", "x", "t", "-", "d", "e", "c", "o", "r", "a", "t", "i", "o", "n">>
V_Underline == <<"u", "n", "d", "e", "r", "l", "i", "n", "e">>
V_LineThrough == <<"l", "i", "n", "e", "-", "t", "h", "r", "o", "u", "g", "h">>
K_VerticalAlign == <<"v", "e", "r", "t", "i", "c", "a", "l", "-", "a", "l", "i", "g", "n">>
V_Super == <<"s", "u", "p", "e", "r">>
V_Sub == <<"s", "u", "b">>
K_FontFamily == <<"f", "o", "n", "t", "-", "f", "a", "m", "i", "l", "y">>
K_FontSize == <<"f", "o", "n", "t", "-", "s", "i", "z", "e">>
K_Color == <<"c", "o", "l", "o", "r">>
K_BackgroundColor == <<"b", "a", "c", "k", "g", "r", "o", "u", "n", "d", "-", "c", "o", "l", "o", "r">>
K_PaddingTop == <<"p", "a", "d", "d", "i", "n", "g", "-", "t", "o", "p">>
K_PaddingBottom == <<"p", "a", "d", "d", "i", "n", "g", "-", "b", "o", "t", "t", "o", "m">>
K_TextAlign == <<"t", "e", "x", "t", "-", "a", "l", "i", "g", "n">>
V_Center == <<"c", "e", "n", "t", "e", "r">>
V_Right == <<"r", "i", "g", "h", "t">>

\* ColorRef: Auto, or Manual { r, g, b }.
ColorAuto == [kind |-> "Auto", r |-> 0, g |-> 0, b |-> 0]
ColorManual(r, g, b) == [kind |-> "Manual", r |-> r, g |-> g, b |-> b]

\* A style record with no flag and no value set.
PlainStyle ==
    [bold |-> FALSE, italic |-> FALSE, underline |-> FALSE,
     superscript |-> FALSE, subscript |-> FALSE, strikethrough |-> FALSE,
     hyperlink |-> FALSE, math_formatting |-> FALSE,
     font |-> None, font_size |-> None, font_color |-> None, highlight |-> None,
     paragraph_alignment |-> None, paragraph_space_before |-> None,
     paragraph_space_after |-> None, paragraph_line_spacing_exact |-> None,
     style_id |-> None]

\* ((size as f32) / 2.0).to_string() + "pt": a half-point size in points.
FormatHalfPoints(size) ==
    Decimal(size \div 2) \o (IF size % 2 = 1 THEN <<".", "5">> ELSE << >>) \o <<"p", "t">>

\* format!("rgb({},{},{})", r, g, b)
FormatRgb(c) ==
    <<"r", "g", "b", "(">> \o Decimal(c.r) \o <<",">> \o Decimal(c.g) \o <<",">>
        \o Decimal(c.b) \o <<")">>

\* The n-th conditional `styles.set` of parse_style, in source order: the
\* pair it sets, or None when its condition is false.
StyleEntry(style, n) ==
    CASE n = 1 -> IF style.bold THEN Some(<<K_FontWeight, V_Bold>>) ELSE None
      [] n = 2 -> IF style.italic THEN Some(<<K_FontStyle, V_Italic>>) ELSE None
      [] n = 3 -> IF style.underline THEN Some(<<K_TextDecoration, V_Underline>>) ELSE None
      [] n = 4 -> IF style.superscript THEN Some(<<K_VerticalAlign, V_Super>>) ELSE None
      [] n = 5 -> IF style.subscript THEN Some(<<K_VerticalAlign, V_Sub>>) ELSE None
      [] n = 6 -> IF style.strikethrough
                  THEN Some(<<K_TextDecoration, V_LineThrough>>) ELSE None
      [] n = 7 -> IF IsSome(style.font)
                  THEN Some(<<K_FontFamily, Unwrap(style.font)>>) ELSE None
      [] n = 8 -> IF IsSome(style.font_size)
                  THEN Some(<<K_FontSize, FormatHalfPoints(Unwrap(style.font_size))>>)
                  ELSE None
      [] n = 9 -> IF IsSome(style.font_color) /\ Unwrap(style.font_color).kind = "Manual"
                  THEN Some(<<K_Color, FormatRgb(Unwrap(style.font_color))>>) ELSE None
      [] n = 10 -> IF IsSome(style.highlight) /\ Unwrap(style.highlight).kind = "Manual"
                   THEN Some(<<K_BackgroundColor, FormatRgb(Unwrap(style.highlight))>>)
                   ELSE None

RECURSIVE ApplyEntries(_, _, _)
ApplyEntries(style, order, ss) ==
    IF order = << >> THEN ss
    ELSE LET e == StyleEntry(style, Head(order))
         IN  ApplyEntries(style, Tail(order),
                          IF IsSome(e) THEN StyleSet_set(ss, Unwrap(e)[1], Unwrap(e)[2])
                          ELSE ss)

\* The conditions under which parse_style reaches an unimplemented!().
Unimplemented(style) ==
    \/ IsSome(style.paragraph_alignment)
    \/ IsSome(style.paragraph_space_before) /\ Unwrap(style.paragraph_space_before) # 0
    \/ IsSome(style.paragraph_space_after) /\ Unwrap(style.paragraph_space_after) # 0
    \/ IsSome(style.paragraph_line_spacing_exact)
           /\ Unwrap(style.paragraph_line_spacing_exact) # 0

\* A parse_style that sets strikethrough before underline and subscript
\* before superscript.
MutParseStyle(style) ==
    IF Unimplemented(style) THEN Panic("not implemented")
    ELSE Ok(ApplyEntries(style, <<1, 2, 6, 5, 4, 3, 7, 8, 9, 10>>, StyleSet_new))

\* parse_style: the StyleSet of a style record, or a panic.
parse_style(style) ==
    IF Unimplemented(style) THEN Panic("not implemented")
    ELSE Ok(ApplyEntries(style, <<1, 2, 3, 4, 5, 6, 7, 8, 9, 10>>, StyleSet_new))

----------------------------------------------------------------------------
(* render_hyperlink and the closure of parse_content                        *)

HYPERLINK_MARKER == <<"U+FDDF", "H", "Y", "P", "E", "R", "L", "I", "N", "K", " ", "\"">>

S_SpanOpen == <<"<", "s", "p", "a", "n", " ", "s", "t", "y", "l", "e", "=", "\"">>
S_TagEnd == <<"\"", ">">>
S_SpanClose == <<"<", "/", "s", "p", "a", "n", ">">>
S_AOpen == <<"<", "a", " ", "h", "r", "e", "f", "=", "\"">>
S_AStyle == <<"\"", " ", "s", "t", "y", "l", "e", "=", "\"">>
S_AClose == <<"<", "/", "a", ">">>

\* format!("<span style=\"{}\">{}</span>", style, content)
FormatSpan(style, content) ==
    S_SpanOpen \o StyleSet_display(style) \o S_TagEnd \o content \o S_SpanClose

render_hyperlink(text, style, in_hl) ==
    LET st == parse_style(style) IN
    IF ~IsOk(st) THEN st
    ELSE IF starts_with(text, HYPERLINK_MARKER)
    THEN LET url == strip_suffix(Unwrap(strip_prefix(text, HYPERLINK_MARKER)), <<"\"">>)
         IN  IF ~IsSome(url) THEN Err("Hyperlink has no end marker")
             ELSE Ok(S_AOpen \o Unwrap(url) \o S_AStyle \o StyleSet_display(st.value)
                         \o S_TagEnd)
    ELSE IF in_hl THEN Ok(text \o S_AClose)
    ELSE Ok(S_AOpen \o text \o S_AStyle \o StyleSet_display(st.value) \o S_TagEnd
                \o text \o S_AClose)

\* The closure mapped over the (part, style) pairs: the fragment of one run
\* and the value of in_hyperlink after it.  The hyperlink branch assigns the
\* flag after render_hyperlink returned, the other branch before parse_style.
RunClosure(text, style, in_hl) ==
    IF style.hyperlink
    THEN LET res == render_hyperlink(text, style, in_hl)
         IN  [res |-> res,
              in_hyperlink |-> IF res.kind = "panic" THEN in_hl ELSE TRUE]
    ELSE LET st == parse_style(style)
         IN  [res |-> IF ~IsOk(st) THEN st
                      ELSE IF StyleSet_len(st.value) > 0
                      THEN Ok(FormatSpan(st.value, text))
                      ELSE Ok(text),
              in_hyperlink |-> FALSE]

----------------------------------------------------------------------------
(* parse_style and the closure applied to one run of every style record    *)

Arial == <<"A", "r", "i", "a", "l">>

\* Style records with every combination of the fields parse_style renders.
RenderedFieldStyles ==
    {[PlainStyle EXCEPT
         !.bold = f[1], !.italic = f[2], !.underline = f[3],
         !.superscript = f[4], !.subscript = f[5], !.strikethrough = f[6],
         !.hyperlink = f[7], !.math_formatting = f[8],
         !.font = fo, !.font_size = sz, !.font_color = co, !.highlight = hi] :
        f \in [1..8 -> BOOLEAN],
        fo \in {None, Some(Arial)},
        sz \in {None, Some(21), Some(24)},
        co \in {None, Some(ColorAuto), Some(ColorManual(255, 0, 10))},
        hi \in {None, Some(ColorManual(1, 2, 3))}}

\* Style records with every combination of the fields parse_style rejects.
ParagraphFieldStyles ==
    {[PlainStyle EXCEPT
         !.bold = b,
         !.paragraph_alignment = al, !.paragraph_space_before = sb,
         !.paragraph_space_after = sa, !.paragraph_line_spacing_exact = ls] :
        b \in BOOLEAN,
        al \in {None, Some("Center")},
        sb \in {None, Some(0), Some(5)},
        sa \in {None, Some(0), Some(5)},
        ls \in {None, Some(0), Some(5)}}

InitStyle ==
    /\ IdleFiles
    /\ pc = "idle"
    /\ para \in {[text |-> <<"x">>, style |-> st] :
                    st \in RenderedFieldStyles \cup ParagraphFieldStyles}
    /\ parts = << >>
    /\ k = 0
    /\ in_hyperlink = FALSE
    /\ frags = << >>
    /\ result = NoResult

\* One run goes through the closure of parse_content, which resolves its
\* style with parse_style.
RenderRun ==
    LET out == RunClosure(para.text, para.style, in_hyperlink) IN
    /\ pc = "idle"
    /\ pc' = "done"
    /\ result' = parse_style(para.style)
    /\ frags' = <<out.res>>
    /\ in_hyperlink' = out.in_hyperlink
    /\ UNCHANGED <<para, parts, k>>
    /\ UNCHANGED fileVars

NextStyle == RenderRun

SpecStyle == InitStyle /\ [][NextStyle]_vars

\* The rule table: the declarations a style record resolves to.
RuleTable(style) ==
    (IF style.bold THEN {<<K_FontWeight, V_Bold>>} ELSE {})
    \cup (IF style.italic THEN {<<K_FontStyle, V_Italic>>} ELSE {})
    \cup (IF style.strikethrough THEN {<<K_TextDecoration, V_LineThrough>>}
          ELSE IF style.underline THEN {<<K_TextDecoration, V_Underline>>} ELSE {})
    \cup (IF style.subscript THEN {<<K_VerticalAlign, V_Sub>>}
          ELSE IF style.superscript THEN {<<K_VerticalAlign, V_Super>>} ELSE {})
    \cup (IF style.font = Some(Arial) THEN {<<K_FontFamily, Arial>>} ELSE {})
    \cup (IF style.font_size = Some(21) THEN {<<K_FontSize, <<"1", "0", ".", "5", "p", "t">>>>}
          ELSE IF style.font_size = Some(24) THEN {<<K_FontSize, <<"1", "2", "p", "t">>>>}
          ELSE {})
    \cup (IF style.font_color = Some(ColorManual(255, 0, 10))
          THEN {<<K_Color, <<"r", "g", "b", "(", "2", "5", "5", ",", "0", ",", "1", "0", ")">>>>}
          ELSE {})
    \cup (IF style.highlight = Some(ColorManual(1, 2, 3))
          THEN {<<K_BackgroundColor, <<"r", "g", "b", "(", "1", ",", "2", ",", "3", ")">>>>}
          ELSE {})

\* No flag and no value of the record is set (the hyperlink and math flags
\* are not style declarations).
FlagFree(style) ==
    /\ ~style.bold /\ ~style.italic /\ ~style.underline
    /\ ~style.superscript /\ ~style.subscript /\ ~style.strikethrough
    /\ style.font = None /\ style.font_size = None
    /\ style.font_color = None /\ style.highlight = None

\* C7: parse_style yields at most one declaration per key and exactly the
\* declarations of the rule table; a record with nothing set yields the
\* empty StyleSet and, when not a hyperlink, its run is the raw text;
\* strikethrough wins over underline and subscript over superscript.
C7_RuleTable ==
    (pc = "done" /\ IsOk(result)) =>
        LET ss == result.value
            style == para.style
        IN  /\ NoRepeats([i \in 1..Len(ss) |-> ss[i][1]])
            /\ {ss[i] : i \in 1..Len(ss)} = RuleTable(style)
            /\ FlagFree(style) =>
                   /\ ss = << >>
                   /\ ~style.hyperlink => frags = <<Ok(para.text)>>
            /\ (style.underline /\ style.strikethrough) =>
                   \A i \in 1..Len(ss) :
                       ss[i][1] = K_TextDecoration => ss[i][2] = V_LineThrough
            /\ (style.superscript /\ style.subscript) =>
                   \A i \in 1..Len(ss) :
                       ss[i][1] = K_VerticalAlign => ss[i][2] = V_Sub

\* C7 witness: a record with underline, strikethrough, superscript and
\* subscript resolved to line-through and sub only.
C7_Witness ==
    /\ pc = "done"
    /\ para.style.underline /\ para.style.strikethrough
    /\ para.style.superscript /\ para.style.subscript
    /\ result = Ok(<<<<K_TextDecoration, V_LineThrough>>, <<K_VerticalAlign, V_Sub>>>>)

----------------------------------------------------------------------------
(* parse_content                                                            *)

\* The number of (part, style) pairs `zip` yields.
ZipLen(ps, styles) == Min(Len(ps), Len(styles))

\* The map over the zipped pairs from pair n + 1 on, collected into a
\* Result<String>: the concatenated fragments, or the first failure.
RECURSIVE CollectRuns(_, _, _, _, _)
CollectRuns(ps, styles, n, in_hl, acc) ==
    IF n >= ZipLen(ps, styles) THEN Ok(acc)
    ELSE LET out == RunClosure(ps[n + 1], styles[n + 1], in_hl)
         IN  IF ~IsOk(out.res) THEN out.res
             ELSE CollectRuns(ps, styles, n + 1, out.in_hyperlink, acc \o out.res.value)

\* Lines 90-92: the `?` on the collected result, then fix_newlines.
NormaliseCollected(content) ==
    IF ~IsOk(content) THEN content ELSE Ok(fix_newlines(content.value))

\* parse_content as one computation.
parse_content(data) ==
    IF data.text = << >> THEN Ok(NBSP)
    ELSE IF data.indices = << >> THEN Ok(fix_newlines(data.text))
    ELSE IF ~(Len(data.indices) + 1 >= Len(data.styles))
    THEN Panic("assertion failed: indices.len() + 1 >= styles.len()")
    ELSE NormaliseCollected(
             CollectRuns(RunOrder(SplitParts(data.text, data.indices)),
                         data.styles, 0, FALSE, << >>))

----------------------------------------------------------------------------
(* parse_content run by run over bounded paragraphs                         *)

MaxRuns == 3

MarkerRun == <<"U+FDDF", "H", "Y", "P", "E", "R", "L", "I", "N", "K", " ", "\"", "u", "\"">>
BadMarkerRun == <<"U+FDDF", "H", "Y", "P", "E", "R", "L", "I", "N", "K", " ", "\"", "u">>

\* The texts of the runs of a paragraph.
RunTexts == {MarkerRun, BadMarkerRun, <<"x">>, <<"\n", " ">>, << >>}

\* The style records of the runs of a paragraph.
RunStyles ==
    {PlainStyle,
     [PlainStyle EXCEPT !.bold = TRUE],
     [PlainStyle EXCEPT !.hyperlink = TRUE],
     [PlainStyle EXCEPT !.paragraph_alignment = Some("Center")]}

\* text_run_indices of a paragraph made of the runs rs: the offset at which
\* each run after the first starts.
RunIndices(rs) ==
    [j \in 1..(Len(rs) - 1) |-> Len(Flatten(SubSeq(rs, 1, j)))]

\* The paragraph made of the runs rs with the style records ss.
Paragraph(rs, ss) == [text |-> Flatten(rs), indices |-> RunIndices(rs), styles |-> ss]

InitRuns ==
    /\ IdleFiles
    /\ pc = "idle"
    /\ \E n \in 1..MaxRuns : \E m \in 0..(n + 1) :
           \E rs \in [1..n -> RunTexts], ss \in [1..m -> RunStyles] :
               para = Paragraph(rs, ss)
    /\ parts = << >>
    /\ k = 0
    /\ in_hyperlink = FALSE
    /\ frags = << >>
    /\ result = NoResult

\* Lines 36-66: the early returns, the assertion, the splitting loop.
StartParse ==
    /\ pc = "idle"
    /\ IF para.text = << >>
       THEN /\ result' = Ok(NBSP)
            /\ pc' = "done"
            /\ UNCHANGED parts
       ELSE IF para.indices = << >>
       THEN /\ result' = Ok(fix_newlines(para.text))
            /\ pc' = "done"
            /\ UNCHANGED parts
       ELSE IF ~(Len(para.indices) + 1 >= Len(para.styles))
       THEN /\ result' = Panic("assertion failed: indices.len() + 1 >= styles.len()")
            /\ pc' = "done"
            /\ UNCHANGED parts
       ELSE /\ parts' = RunOrder(SplitParts(para.text, para.indices))
            /\ pc' = "runs"
            /\ UNCHANGED result
    /\ UNCHANGED <<para, k, in_hyperlink, frags>>
    /\ UNCHANGED fileVars

\* Lines 68-89: the closure on the next (part, style) pair; a failure ends
\* the collect.
RunStep ==
    /\ pc = "runs"
    /\ k < ZipLen(parts, para.styles)
    /\ LET out == RunClosure(parts[k + 1], para.styles[k + 1], in_hyperlink) IN
       IF IsOk(out.res)
       THEN /\ frags' = Append(frags, out.res.value)
            /\ in_hyperlink' = out.in_hyperlink
            /\ k' = k + 1
            /\ UNCHANGED <<pc, result>>
       ELSE /\ result' = out.res
            /\ in_hyperlink' = out.in_hyperlink
            /\ pc' = "done"
            /\ UNCHANGED <<frags, k>>
    /\ UNCHANGED <<para, parts>>
    /\ UNCHANGED fileVars

\* Lines 90-92: the pairs are exhausted; the fragments are concatenated and
\* normalised.
FinishParse ==
    /\ pc = "runs"
    /\ k = ZipLen(parts, para.styles)
    /\ result' = Ok(fix_newlines(Flatten(frags)))
    /\ pc' = "done"
    /\ UNCHANGED <<para, parts, k, in_hyperlink, frags>>
    /\ UNCHANGED fileVars

NextRuns == StartParse \/ RunStep \/ FinishParse

SpecRuns == InitRuns /\ [][NextRuns]_vars

----------------------------------------------------------------------------
(* Claims about the hyperlink stitcher and the pairing of parts and styles *)

IsMarkerRun(text) == starts_with(text, HYPERLINK_MARKER)

\* The inline style of a run as the fragments show it.
InlineStyle(style) == StyleSet_display(ApplyEntries(style, <<1, 2, 3, 4, 5, 6, 7, 8, 9, 10>>, StyleSet_new))

\* <a href="{url}" style="{style}">
OpeningAnchor(url, style) ==
    S_AOpen \o url \o S_AStyle \o InlineStyle(style) \o S_TagEnd

\* <a href="{text}" style="{style}">{text}</a>
CompleteAnchor(text, style) == OpeningAnchor(text, style) \o text \o S_AClose

\* C3: each run follows the transition table of the stitcher: a marker run
\* emits only an opening anchor and opens; a hyperlink run without marker
\* while open (a label) emits its text and </a> and leaves the state closed;
\* a hyperlink run without marker while closed emits a complete anchor; any
\* other run closes; and a hyperlink run without marker right after another
\* hyperlink run without marker is a complete anchor.
C3_TransitionTable ==
    [][(pc = "runs" /\ k' = k + 1) =>
          LET text == parts[k + 1]
              style == para.styles[k + 1]
              frag == frags'[k + 1]
          IN  /\ (style.hyperlink /\ IsMarkerRun(text)) =>
                     /\ frag = OpeningAnchor(
                                   SubSeq(text, Len(HYPERLINK_MARKER) + 1, Len(text) - 1),
                                   style)
                     /\ in_hyperlink' = TRUE
              /\ (style.hyperlink /\ ~IsMarkerRun(text) /\ in_hyperlink) =>
                     /\ frag = text \o S_AClose
                     /\ in_hyperlink' = FALSE
              /\ (style.hyperlink /\ ~IsMarkerRun(text) /\ ~in_hyperlink) =>
                     frag = CompleteAnchor(text, style)
              /\ ~style.hyperlink => in_hyperlink' = FALSE
              /\ (/\ k >= 1
                  /\ para.styles[k].hyperlink /\ ~IsMarkerRun(parts[k])
                  /\ style.hyperlink /\ ~IsMarkerRun(text)) =>
                     frag = CompleteAnchor(text, style)]_vars

\* The positions of s at which the string t starts.
Occurrences(s, t) ==
    {p \in 1..(Len(s) - Len(t) + 1) : SubSeq(s, p, p + Len(t) - 1) = t}

\* The number of anchors open after the first p characters of s.
AnchorDepth(s, p) ==
    Cardinality({q \in Occurrences(s, S_AOpen) : q <= p})
        - Cardinality({q \in Occurrences(s, S_AClose) : q <= p})

\* No </a> without an open anchor, no anchor opened inside another, and none
\* left open at the end.
BalancedAnchors(s) ==
    /\ \A p \in 1..Len(s) : AnchorDepth(s, p) \in {0, 1}
    /\ AnchorDepth(s, Len(s)) = 0

\* Every marker run is flagged as a hyperlink, ends with the closing quote
\* of its URL and is directly followed by a hyperlink run without a marker
\* (its label); every part has a style record.
WellFormedMarkers(ps, styles) ==
    /\ Len(ps) = Len(styles)
    /\ \A j \in 1..Len(ps) :
           IsMarkerRun(ps[j]) =>
               /\ styles[j].hyperlink
               /\ Len(ps[j]) > Len(HYPERLINK_MARKER)
               /\ ps[j][Len(ps[j])] = "\""
               /\ j < Len(ps)
               /\ styles[j + 1].hyperlink
               /\ ~IsMarkerRun(ps[j + 1])

\* C9: for a paragraph with well-formed markers, the fragments of
\* parse_content form balanced anchors.
C9_BalancedAnchors ==
    (/\ pc = "done"
     /\ IsOk(result)
     /\ k > 0
     /\ WellFormedMarkers(parts, para.styles))
        => BalancedAnchors(Flatten(frags))

IsControl(c) == c \in {"\n", "\r", "\t", "VT", "FF"}

\* C10: when parse_content has split the text and the accepted precondition
\* indices.len() + 1 >= styles.len() holds, every part has contributed one
\* fragment; with flag-free styles and no control character the output is
\* the text.
C10_NoPartDropped ==
    (/\ pc = "done"
     /\ IsOk(result)
     /\ para.text # << >>
     /\ para.indices # << >>
     /\ Len(para.indices) + 1 >= Len(para.styles))
        => /\ Len(frags) = Len(para.indices) + 1
           /\ ((\A j \in 1..Len(para.styles) :
                    FlagFree(para.styles[j]) /\ ~para.styles[j].hyperlink)
               /\ (\A p \in 1..Len(para.text) : ~IsControl(para.text[p])))
                  => result.value = para.text

----------------------------------------------------------------------------
(* parse_paragraph_styles and render_rich_text                              *)

S_Http == <<"h", "t", "t", "p", ":", "/", "/">>
S_Https == <<"h", "t", "t", "p", "s", ":", "/", "/">>
PageTitle == <<"P", "a", "g", "e", "T", "i", "t", "l", "e">>
PageDateTime == <<"P", "a", "g", "e", "D", "a", "t", "e", "T", "i", "m", "e">>

\* An is_tag that knows only one of the reserved identifiers.
MutIsTag(tag) == tag # PageTitle

is_tag(tag) == ~(tag \in {PageDateTime, PageTitle})

\* The paragraph-level StyleSet of a node, or a panic.
parse_paragraph_styles(node) ==
    IF node.text = << >> THEN Ok(StyleSet_new)
    ELSE
    LET base == parse_style(node.paragraph_style)
        single == IF Len(node.styles) = 1 THEN parse_style(node.styles[1])
                  ELSE Ok(StyleSet_new)
    IN  IF ~IsOk(base) THEN base
        ELSE IF ~IsOk(single) THEN single
        ELSE IF IsSome(node.paragraph_line_spacing_exact)
                /\ Unwrap(node.paragraph_line_spacing_exact) > 0
        THEN Panic("not implemented")
        ELSE
        LET s1 == StyleSet_extend(base.value, single.value)
            s2 == IF node.paragraph_space_before > 0
                  THEN StyleSet_set(s1, K_PaddingTop, px(node.paragraph_space_before))
                  ELSE s1
            s3 == IF node.paragraph_space_after > 0
                  THEN StyleSet_set(s2, K_PaddingBottom, px(node.paragraph_space_after))
                  ELSE s2
        IN  Ok(CASE node.paragraph_alignment = "Center" ->
                        StyleSet_set(s3, K_TextAlign, V_Center)
                 [] node.paragraph_alignment = "Right" ->
                        StyleSet_set(s3, K_TextAlign, V_Right)
                 [] OTHER -> s3)

\* Lines 14-19: the paragraph style extended by the styles of the note tags.
\* node.note is what render_note_tags returned for the node.
RichTextStyle(node) ==
    LET st == parse_paragraph_styles(node) IN
    IF ~IsOk(st) THEN st
    ELSE Ok(IF IsSome(node.note)
            THEN StyleSet_extend(st.value, Unwrap(node.note).styles)
            ELSE st.value)

\* Lines 23-25: a content that starts with http:// or https:// becomes the
\* label and the target of an anchor.
AutoLink(content) ==
    IF starts_with(content, S_Http) \/ starts_with(content, S_Https)
    THEN S_AOpen \o content \o S_TagEnd \o content \o S_AClose
    ELSE content

\* Lines 13-21: the note tag markup followed by the body; a failure of
\* parse_content is returned by the `?`.
PushContent(note, body) ==
    IF ~IsOk(body) THEN body
    ELSE Ok(AutoLink((IF IsSome(note) THEN Unwrap(note).html ELSE << >>) \o body.value))

RichTextContent(node) == PushContent(node.note, parse_content(node))

\* format!("<{} style=\"{}\">{}</{}>", t, style, content, t)
FormatTag(t, style, content) ==
    <<"<">> \o t \o <<" ", "s", "t", "y", "l", "e", "=", "\"">> \o StyleSet_display(style)
        \o S_TagEnd \o content \o <<"<", "/">> \o t \o <<">">>

\* Lines 27-33: the match on the style identifier.
SelectWrapper(style_id, in_list, style, content) ==
    IF IsSome(style_id) /\ ~in_list /\ is_tag(Unwrap(style_id))
    THEN Ok(FormatTag(Unwrap(style_id), style, content))
    ELSE IF StyleSet_len(style) > 0 THEN Ok(FormatSpan(style, content))
    ELSE Ok(content)

\* The first failure of the pipeline, or the wrapped content.
WrapResult(style_id, in_list, style, content) ==
    IF ~IsOk(style) THEN style
    ELSE IF ~IsOk(content) THEN content
    ELSE SelectWrapper(style_id, in_list, style.value, content.value)

render_rich_text(node, in_list) ==
    WrapResult(node.paragraph_style.style_id, in_list,
               RichTextStyle(node), RichTextContent(node))

----------------------------------------------------------------------------
(* render_rich_text over bounded nodes                                      *)

HttpX == <<"h", "t", "t", "p", ":", "/", "/", "x">>

\* The text, run indices and run styles of the nodes.
Bodies ==
    {[text |-> << >>, indices |-> << >>, styles |-> << >>],
     [text |-> <<"x">>, indices |-> << >>, styles |-> << >>],
     [text |-> <<"x">>, indices |-> << >>,
      styles |-> <<[PlainStyle EXCEPT !.italic = TRUE]>>],
     [text |-> HttpX, indices |-> << >>, styles |-> << >>],
     [text |-> <<"x", "y">>, indices |-> <<1>>,
      styles |-> <<PlainStyle, [PlainStyle EXCEPT !.bold = TRUE]>>],
     [text |-> BadMarkerRun \o <<"x">>, indices |-> <<Len(BadMarkerRun)>>,
      styles |-> <<[PlainStyle EXCEPT !.hyperlink = TRUE],
                   [PlainStyle EXCEPT !.hyperlink = TRUE]>>]}

StyleIds == {None, Some(PageTitle), Some(PageDateTime), Some(<<"h", "1">>), Some(<<"p">>)}

\* What render_note_tags may return for a node.
NoteTags ==
    {None,
     Some([html |-> <<"<", "i", "/", ">">>, styles |-> StyleSet_new]),
     Some([html |-> <<"<", "i", "/", ">">>,
           styles |-> <<<<K_Color, <<"r", "e", "d">>>>>>])}

InitRender ==
    /\ IdleFiles
    /\ pc = "idle"
    /\ \E body \in Bodies, bold \in BOOLEAN, id \in StyleIds,
          sb \in {0, 5}, sa \in {0, 5}, ls \in {None, Some(0), Some(5)},
          al \in {"Left", "Center", "Right"}, nt \in NoteTags, il \in BOOLEAN :
           para = [text |-> body.text, indices |-> body.indices, styles |-> body.styles,
                   paragraph_style |-> [PlainStyle EXCEPT !.bold = bold, !.style_id = id],
                   paragraph_space_before |-> sb, paragraph_space_after |-> sa,
                   paragraph_line_spacing_exact |-> ls, paragraph_alignment |-> al,
                   note |-> nt, in_list |-> il]
    /\ parts = << >>
    /\ k = 0
    /\ in_hyperlink = FALSE
    /\ frags = << >>
    /\ result = NoResult

RenderRichText ==
    /\ pc = "idle"
    /\ pc' = "done"
    /\ result' = render_rich_text(para, para.in_list)
    /\ UNCHANGED <<para, parts, k, in_hyperlink, frags>>
    /\ UNCHANGED fileVars

NextRender == RenderRichText

SpecRender == InitRender /\ [][NextRender]_vars

\* C4: with a style identifier other than PageTitle and PageDateTime and
\* outside a list the content is wrapped in <id style="...">...</id>;
\* otherwise in a span when the composed StyleSet is not empty; otherwise it
\* is returned as it is.
C4_WrapperSelection ==
    (pc = "done" /\ IsOk(result)) =>
        LET id == para.paragraph_style.style_id
            style == RichTextStyle(para).value
            content == RichTextContent(para).value
        IN  IF id # None /\ id # Some(PageTitle) /\ id # Some(PageDateTime)
                 /\ ~para.in_list
            THEN result.value = FormatTag(Unwrap(id), style, content)
            ELSE /\ style # << >> => result.value = FormatSpan(style, content)
                 /\ style = << >> => result.value = content
                 /\ id # None => ~starts_with(result.value, <<"<">> \o Unwrap(id))

\* C4 witness: a PageDateTime paragraph outside a list with a non-empty
\* style came out in a span.
C4_Witness ==
    /\ pc = "done"
    /\ para.paragraph_style.style_id = Some(PageDateTime)
    /\ ~para.in_list
    /\ IsOk(result)
    /\ starts_with(result.value, S_SpanOpen)

====
